---- MODULE Spec2Model ----
(***************************************************************************)
(* Rwanda Agriculture Digital Twin: the Monte Carlo projection engine of   *)
(* app.py (the serving engine), the file-configured engine of              *)
(* data/models/monte_carlo.py, and the request-to-vector conversion.       *)
(*                                                                         *)
(* Numbers are fixed point, so that every quantity is an integer:          *)
(*   intervention vector entries      hundredths      (0.35  -> 35)        *)
(*   alpha, beta coefficients         thousandths     (0.011 -> 11)        *)
(*   alpha_scale                      1e-4            (0.1100 -> 1100)     *)
(*   beta_scale                       tenths          (1.0   -> 10)        *)
(*   drift, shock, growth rates       1e-9            (0.055 -> 55000000)  *)
(*   volatility                       1e-6            (0.05  -> 50000)     *)
(*   standard normal deviates         tenths of a standard deviation       *)
(*   indicator values (ppp)           whole units, rounded down each step  *)
(*   probabilities                    the pair <<successes, paths>>        *)
(*   target_prob, tolerance           thousandths     (0.45  -> 450)       *)
(*   alpha_scale of a script's engine 1e-5            (0.12328 -> 12328)   *)
(*   low, high, mid of calibrate.py   1e-6            (0.175 -> 175000)    *)
(* A bisection midpoint is rounded down to the resolution of the interval  *)
(* it is taken in: 1e-6 for calibrate.py (the engine receiving the value   *)
(* at 1e-4), 1e-5 for the alpha_scale of a script's own engine, 1e-9 for   *)
(* baseline_alpha.                                                         *)
(***************************************************************************)
EXTENDS Integers, Sequences, FiniteSets, TLC

VARIABLES
    rng,          \* state of the process-wide generator np.random
    alpha_scale,  \* mc_engine.alpha_scale
    pc,           \* "idle", "running", "returned", "raised", "rejected"
    engine,       \* which run_simulation is executing: "app" or "dm"
    cur_map,      \* raw mapping of the projection request (None for a direct call)
    vec,          \* intervention_vector of the call
    n_sim,        \* n_simulations of the call (0 when the call raised before its loop)
    seed,         \* the seed the call gave np.random.seed (0 when it gave none)
    drift,        \* local drift of the call
    vol,          \* local vol / volatility of the call
    year,         \* annual steps already applied to the current path
    ppp,          \* running value of the current path
    prev_ppp,     \* the value the last step started from
    shock,        \* the shock drawn by the last step
    results,      \* terminal values appended so far
    draws,        \* np.random.normal calls made by this call
    ret,          \* the record the call returned (None otherwise)
    first,        \* the first call that returned a record, as observed by its caller
    later,        \* TRUE when the present call began after that first call returned
    target_year_arg,  \* target_year passed to run_simulation of data/models (0: app.py)
    script,       \* the calibration script the process runs ("none" for the server)
    cal_pc,       \* "idle", "loop", "converged", "exhausted" (the loop ended unconverged)
    n_paths,      \* n_simulations the script gives its engine
    target_prob,  \* target probability of the single-parameter calibration
    tolerance,    \* its tolerance
    low,          \* low, high, mid, prob: the locals of the bisection loop
    high,
    mid,
    prob,
    iterations,   \* iterations / iteration
    best_scale,   \* calibrate.py: best_scale, best_prob
    best_prob,
    ba_low,       \* calibrate_both.py: the baseline_alpha interval and midpoint
    ba_high,
    ba_mid,
    as_low,       \* calibrate_both.py: the alpha_scale interval and midpoint
    as_high,
    as_mid,
    prob_base,    \* calibrate_both.py: probabilities at the baseline and maximum vectors
    prob_max,
    report,       \* what the script returned or printed as its result (None: nothing)
    evaluated,    \* the <<parameter, probability>> pairs evaluated so far, in order
    threads,      \* the locals of run_simulation in each of two request threads
    current,      \* the thread that ran last ("none" before any)
    switches,     \* how often the processor went from one thread to the other
    opt           \* the locals of optimize_interventions (pc: where the call is)

\* the locals of the calibration scripts
cal_vars == <<script, cal_pc, n_paths, target_prob, tolerance, low, high, mid, prob,
              iterations, best_scale, best_prob, ba_low, ba_high, ba_mid, as_low,
              as_high, as_mid, prob_base, prob_max, report, evaluated>>

\* two requests served by different threads
thread_vars == <<threads, current, switches>>

\* a call of optimize_interventions
opt_vars == <<opt>>

\* the state of the engine and of a run_simulation call (alpha_scale and rng apart)
call_vars == <<pc, engine, cur_map, vec, n_sim, seed, drift, vol, year, ppp, prev_ppp,
               shock, results, draws, ret, first, later, target_year_arg>>

vars == <<rng, alpha_scale, pc, engine, cur_map, vec, n_sim, seed, drift, vol,
          year, ppp, prev_ppp, shock, results, draws, ret, first, later, target_year_arg,
          script, cal_pc, n_paths, target_prob, tolerance, low, high, mid, prob,
          iterations, best_scale, best_prob, ba_low, ba_high, ba_mid, as_low,
          as_high, as_mid, prob_base, prob_max, report, evaluated,
          threads, current, switches, opt>>

\* An optional value is a sequence of length 0 or 1.
None == << >>
Some(x) == <<x>>

(***************************************************************************)
(* Bounds of the model.                                                    *)
(***************************************************************************)
MaxN == 2

\* paths a calibration script simulates per evaluation (the scripts ask for 2000 or 3000)
CalN == 20

Max(a, b) == IF a >= b THEN a ELSE b

(***************************************************************************)
(* app.py: MonteCarloEngine.__init__                                       *)
(***************************************************************************)
base_year == 2025
target_year == 2050
base_ag_ppp == 803
target_ag_ppp == 7000
base_growth_rate == 55000000
base_volatility == 20000
baseline_alpha == 24800000
initial_alpha_scale == 1100
beta_scale == 10
volatility_floor == 50000

alpha == <<11, 13, 16, 12, 15, 15, 15, 12, 13,
           15, 14, 14, 10, 13, 14, 11, 11,
           14, 16, 15>>

beta == <<6, 5, 7, 12, 5, 5, 7, 6, 5,
          6, 7, 7, 9, 11, 5, 5, 11,
          7, 5, 13>>

(***************************************************************************)
(* numpy: np.dot of two one-dimensional arrays.  It raises ValueError when *)
(* the lengths differ.                                                     *)
(***************************************************************************)
\* variant: only a vector that is too short is rejected
np_dot_raises_short_only(a, b) == Len(a) > Len(b)

np_dot_raises(a, b) == Len(a) # Len(b)

RECURSIVE DotUpTo(_, _, _)
DotUpTo(a, b, k) == IF k = 0 THEN 0 ELSE DotUpTo(a, b, k - 1) + a[k] * b[k]

np_dot(a, b) == DotUpTo(a, b, Len(a))

(***************************************************************************)
(* numpy: the process-wide generator.  np.random.seed(s) puts it in a      *)
(* state that depends on s alone; every np.random.normal call returns the  *)
(* deviate of the current state times the scale and moves to the next      *)
(* state.  The generator is a full-period congruential generator on 256    *)
(* states whose deviates range over -2.0 .. 2.0 standard deviations.       *)
(***************************************************************************)
\* the states the generator may be in before any call seeds it
UnseededStates == {0, 101, 202}

np_random_seed(s) == s % 256

rng_next(s) == (37 * s + 11) % 256

rng_deviate(s) == ((s * 41) \div 256) - 20

\* np.random.normal(0, scale) in state s: scale (1e-6) times deviate (tenths), in 1e-9
np_random_normal(s, scale) == scale * rng_deviate(s) * 100

RECURSIVE RngAfter(_, _)
\* the generator state k draws after state s
RngAfter(s, k) == IF k = 0 THEN s ELSE rng_next(RngAfter(s, k - 1))

(***************************************************************************)
(* value * rate for a rate in 1e-9, rounded down: exact, computed on three *)
(* base-1000 limbs of the rate so that no product leaves the integers TLC  *)
(* handles.                                                                *)
(***************************************************************************)
MulRate(value, rate) ==
    LET g0 == rate % 1000
        g1 == (rate \div 1000) % 1000
        g2 == rate \div 1000000
    IN  (value * g2 + ((value * g1 + ((value * g0) \div 1000)) \div 1000)) \div 1000

(***************************************************************************)
(* app.py: MonteCarloEngine.run_simulation, the computations of one call.  *)
(***************************************************************************)
\* effective_alpha = self.alpha * self.alpha_scale          (thousandths * 1e-4)
effective_alpha(scale) == [i \in 1 .. Len(alpha) |-> alpha[i] * scale]

\* effective_beta = self.beta * self.beta_scale             (thousandths * tenths)
effective_beta == [i \in 1 .. Len(beta) |-> beta[i] * beta_scale]

\* variant: the intervention term is subtracted
app_drift_negated(v, scale) ==
    base_growth_rate + baseline_alpha - np_dot(effective_alpha(scale), v)

\* variant: the drift is capped at 10% a year
app_drift_capped(v, scale) ==
    LET d == base_growth_rate + baseline_alpha + np_dot(effective_alpha(scale), v)
    IN  IF d > 100000000 THEN 100000000 ELSE d

\* drift = base_growth_rate + baseline_alpha + np.dot(effective_alpha, vector)   (1e-9)
app_drift(v, scale) ==
    base_growth_rate + baseline_alpha + np_dot(effective_alpha(scale), v)

\* variant: the floor is not applied
app_vol_unfloored(v) == base_volatility - np_dot(effective_beta, v)

\* variant: the floor is the one of the data/models engine, 0.004
app_vol_low_floor(v) ==
    Max(4000, base_volatility - np_dot(effective_beta, v))

\* vol = max(volatility_floor, base_volatility - np.dot(effective_beta, vector)) (1e-6)
app_vol(v) ==
    Max(volatility_floor, base_volatility - np_dot(effective_beta, v))

\* variant: the target year is simulated as one more step
app_n_years_inclusive == target_year - base_year + 1

\* range(self.target_year - self.base_year)
app_n_years == target_year - base_year

\* variant: the call does not reseed
app_reseed_missing(s) == s

\* np.random.seed(42): the state the generator is in after the call's first line
app_reseed(s) == np_random_seed(42)

\* variant: ppp *= (drift + shock)
grow_without_one(value, d, sh) == MulRate(value, d + sh)

\* ppp *= (1 + drift + shock)
grow(value, d, sh) == value + MulRate(value, d + sh)

\* variant: a path must exceed the target
meets_target_strict(value, target) == value > target

\* results_array >= self.target_ag_ppp, for one element
meets_target(value, target) == value >= target

\* float(np.mean(results_array >= self.target_ag_ppp)): the quotient successes / paths,
\* kept as the pair <<successes, paths>>
probability(res, target) ==
    <<Cardinality({i \in 1 .. Len(res) : meets_target(res[i], target)}), Len(res)>>

\* the returned record (its mean, median and quantiles are not modelled)
result_record(res, target) ==
    [probability |-> probability(res, target), distribution |-> res]

(***************************************************************************)
(* data/models/monte_carlo.py: MonteCarloEngine.  Its parameters are read  *)
(* from data/config/interventions.json: the 20 levers and the reference    *)
(* parameters of the specification.                                        *)
(***************************************************************************)
dm_base_year == 2025
dm_target_year == 2050
dm_base_ag_ppp == 803
dm_target_ag_ppp == 7000
dm_base_growth_rate == 55000000
dm_base_volatility == 20000
dm_n_interventions == 20
alpha_coefficients == alpha
beta_coefficients == beta

\* self.years = np.arange(base_year, target_year + 1); self.n_years = len(self.years) - 1
n_years == ((dm_target_year + 1) - dm_base_year) - 1

\* if len(intervention_vector) != len(self.interventions): raise ValueError
dm_validation_fails(v) == Len(v) # dm_n_interventions

\* drift = base_growth_rate + np.dot(alpha_coefficients, vector)   (thousandths * hundredths -> 1e-9)
dm_drift(v) == dm_base_growth_rate + np_dot(alpha_coefficients, v) * 10000

\* the literal 0.004 of the volatility line
dm_volatility_floor == 4000

\* volatility = max(0.004, base_volatility - np.dot(beta_coefficients, vector))  (-> 1e-6)
dm_volatility(v) ==
    Max(dm_volatility_floor, dm_base_volatility - np_dot(beta_coefficients, v) * 10)

\* variant: the generator is left as it is
dm_reseed_missing(s, random_seed) == s

\* np.random.seed(random_seed)
dm_reseed(s, random_seed) == np_random_seed(random_seed)

(***************************************************************************)
(* app.py: INTERVENTIONS, DEFAULT_TARGETS, interventions_to_vector         *)
(***************************************************************************)
\* The en dash of the last lever name is written as a hyphen; the name is spelled the
\* same way in INTERVENTIONS and in DEFAULT_TARGETS.
PostharvestLoss == "Postharvest Loss (%)"

INTERVENTIONS == <<
    "Land Consolidation",
    "Land Use Productivity",
    "Irrigation & Water Use Efficiency",
    "Climate Adaptation Index",
    "Staple Crop Productivity",
    "Cash Crop Productivity",
    "Livestock Productivity (Breed Improvement & Feeding Systems)",
    "Inputs Efficiency (fertilizer, seeds)",
    "Soil Health Indicators",
    "Mechanization",
    "Digital Agriculture Adoption",
    "R&D + Extension (AI-augmented advisory)",
    "Digital Twin simulations for plots & cooperatives",
    "Postharvest Loss (%)",
    "Storage/Processing Value Addition",
    "Access to Finance",
    "Insurance Penetration",
    "Domestic Market Integration",
    "Export Competitiveness",
    "Supply-Demand Stability Score (AI forecast model)" >>

LeverNames == {INTERVENTIONS[i] : i \in 1 .. Len(INTERVENTIONS)}

DEFAULT_TARGETS == [name \in LeverNames |-> IF name = "Postharvest Loss (%)" THEN 60 ELSE 35]

\* d.get(key, default) of a dict
dict_get(d, key, default) == IF key \in DOMAIN d THEN d[key] ELSE default

\* variant: an omitted lever takes the inner fallback
raw_value_fallback(interventions, intervention) == dict_get(interventions, intervention, 50)

\* value = interventions.get(intervention, DEFAULT_TARGETS.get(intervention, 50))
raw_value(interventions, intervention) ==
    dict_get(interventions, intervention, dict_get(DEFAULT_TARGETS, intervention, 50))

\* variant: the raw value is clamped to 0..100 first
effective_value_clamped(intervention, value) ==
    LET c == IF value < 0 THEN 0 ELSE IF value > 100 THEN 100 ELSE value
    IN  IF intervention = "Postharvest Loss (%)" THEN 100 - c ELSE c

\* effective_value: 100 - value for Postharvest Loss (%), value otherwise
effective_value(intervention, value) ==
    IF intervention = "Postharvest Loss (%)" THEN 100 - value ELSE value

\* variant: the vector is built from the levers the mapping names
interventions_to_vector_given(interventions) ==
    LET given == SelectSeq(INTERVENTIONS, LAMBDA name : name \in DOMAIN interventions)
    IN  [i \in 1 .. Len(given) |-> effective_value(given[i], interventions[given[i]])]

\* vector.append(effective_value / 100.0), for each name of INTERVENTIONS in order
interventions_to_vector(interventions) ==
    [i \in 1 .. Len(INTERVENTIONS) |->
        effective_value(INTERVENTIONS[i], raw_value(interventions, INTERVENTIONS[i]))]

(***************************************************************************)
(* Inputs: the mappings the repository's callers send, mappings with       *)
(* unknown names and out-of-range values, and vectors passed directly.     *)
(***************************************************************************)
EmptyMapping == [name \in {} |-> 0]

\* names that are not levers (taken from test_baseline.py)
UnknownOnly == [name \in {"Drought Tolerant Crops (%)", "Mechanization (%)"} |-> 0]

\* test_baseline.py: unknown names and Postharvest Loss (%) at 0
BaselineTestMapping ==
    [name \in {"Drought Tolerant Crops (%)", "Mechanization (%)", "Postharvest Loss (%)"} |-> 0]

\* test_system.py: create_payload(level)
create_payload(level) ==
    [name \in LeverNames |-> IF name = "Postharvest Loss (%)" THEN 60 ELSE level]

\* calibrate.py: {name: 100 for name in INTERVENTIONS}
All100 == [name \in LeverNames |-> 100]

OutOfRange ==
    [name \in {"Postharvest Loss (%)", "Mechanization", "Land Consolidation"} |->
        IF name = "Postharvest Loss (%)" THEN 1000
        ELSE IF name = "Mechanization" THEN -20 ELSE 150]

JustOutside ==
    [name \in {"Postharvest Loss (%)", "Land Use Productivity", "Soil Health Indicators",
               "Youth Engagement (%)"} |->
        IF name = "Soil Health Indicators" THEN -1 ELSE 101]

Mappings ==
    {EmptyMapping, UnknownOnly, BaselineTestMapping, create_payload(35),
     create_payload(50), create_payload(100), All100, OutOfRange, JustOutside}

Uniform(len, x) == [i \in 1 .. len |-> x]

DirectVectors ==
    {Uniform(20, 0), Uniform(20, 13), Uniform(20, 100),
     Uniform(0, 50), Uniform(1, 50), Uniform(19, 50), Uniform(21, 50)}

\* n_simulations of a call: at least one path
Counts == 1 .. MaxN

Seeds == {42, 216}

\* the JSON body of a projection request; None is a body without 'interventions'
Requests ==
    {None} \cup {Some([interventions |-> m, n_simulations |-> n]) : m \in Mappings, n \in Counts}

(***************************************************************************)
(* State machine.                                                          *)
(***************************************************************************)
Init ==
    /\ rng \in UnseededStates     \* np.random is seeded from the system at import
    /\ alpha_scale = initial_alpha_scale
    /\ pc = "idle"
    /\ engine = "app"
    /\ cur_map = None
    /\ vec = << >>
    /\ n_sim = 0
    /\ seed = 0
    /\ drift = 0
    /\ vol = 0
    /\ year = 0
    /\ ppp = 0
    /\ prev_ppp = 0
    /\ shock = 0
    /\ results = << >>
    /\ draws = 0
    /\ ret = None
    /\ first = None
    /\ later = FALSE
    /\ target_year_arg = 0
    /\ script = "none"
    /\ cal_pc = "idle"
    /\ n_paths = 0
    /\ target_prob = 0
    /\ tolerance = 0
    /\ low = 0
    /\ high = 0
    /\ mid = 0
    /\ prob = None
    /\ iterations = 0
    /\ best_scale = 0
    /\ best_prob = None
    /\ ba_low = 0
    /\ ba_high = 0
    /\ ba_mid = 0
    /\ as_low = 0
    /\ as_high = 0
    /\ as_mid = 0
    /\ prob_base = None
    /\ prob_max = None
    /\ report = None
    /\ evaluated = << >>
    /\ threads = [t \in {"t1", "t2"} |-> [pc |-> "idle"]]
    /\ current = "none"
    /\ switches = 0
    /\ opt = [pc |-> "idle"]

\* the locals of a call before its loop starts
EnterLoop(start) ==
    /\ year' = 0
    /\ ppp' = start
    /\ prev_ppp' = start
    /\ shock' = 0
    /\ results' = << >>
    /\ draws' = 0
    /\ ret' = None
    /\ later' = (first # None)

\* app.py run_simulation, lines 53-64: reseed, then drift and vol; np.dot raises on a
\* vector that has not the length of alpha
app_enter(v, n, m) ==
    /\ pc # "running"
    /\ engine' = "app"
    /\ cur_map' = m
    /\ vec' = v
    /\ seed' = 42
    /\ rng' = app_reseed(rng)
    /\ IF np_dot_raises(effective_alpha(alpha_scale), v)
       THEN /\ pc' = "raised"
            /\ n_sim' = 0
            /\ drift' = 0
            /\ vol' = 0
       ELSE /\ pc' = "running"
            /\ n_sim' = n
            /\ drift' = app_drift(v, alpha_scale)
            /\ vol' = app_vol(v)
    /\ EnterLoop(base_ag_ppp)
    /\ target_year_arg' = 0
    /\ UNCHANGED <<alpha_scale, first>>
    /\ UNCHANGED cal_vars
    /\ UNCHANGED thread_vars
    /\ UNCHANGED opt_vars

\* mc_engine.run_simulation(vec, n_simulations = n), called with a vector
run_simulation ==
    \E v \in DirectVectors, n \in Counts : app_enter(v, n, None)

\* app.py projection for the JSON body data: 400 without 'interventions', else convert
\* and run n_sim = data.get('n_simulations', 2000) paths
projection_request(data) ==
    IF data = None
    THEN /\ pc # "running"
         /\ pc' = "rejected"
         /\ ret' = None
         /\ UNCHANGED <<rng, alpha_scale, engine, cur_map, vec, n_sim, seed, drift,
                        vol, year, ppp, prev_ppp, shock, results, draws, first, later,
                        target_year_arg>>
         /\ UNCHANGED cal_vars
         /\ UNCHANGED thread_vars
         /\ UNCHANGED opt_vars
    ELSE app_enter(interventions_to_vector(data[1].interventions),
                   dict_get(data[1], "n_simulations", 2000), Some(data[1].interventions))

\* a projection request with a small n_simulations
projection == \E data \in Requests : projection_request(data)

\* data/models/monte_carlo.py run_simulation(v, n, ty, random_seed), lines 58-70: validate,
\* reseed, drift, volatility; the argument target_year is kept only to be echoed
dm_call(v, n, ty, random_seed) ==
    /\ pc # "running"
    /\ engine' = "dm"
    /\ cur_map' = None
    /\ vec' = v
    /\ target_year_arg' = ty
    /\ IF dm_validation_fails(v)
       THEN /\ pc' = "raised"
            /\ n_sim' = 0
            /\ seed' = 0
            /\ drift' = 0
            /\ vol' = 0
            /\ rng' = rng
       ELSE /\ pc' = "running"
            /\ n_sim' = n
            /\ seed' = random_seed
            /\ rng' = dm_reseed(rng, random_seed)
            /\ drift' = dm_drift(v)
            /\ vol' = dm_volatility(v)
    /\ EnterLoop(dm_base_ag_ppp)
    /\ UNCHANGED <<alpha_scale, first>>
    /\ UNCHANGED cal_vars
    /\ UNCHANGED thread_vars
    /\ UNCHANGED opt_vars

\* run_simulation of data/models called without target_year: the default 2050
dm_run_simulation ==
    \E v \in DirectVectors, n \in Counts, random_seed \in Seeds :
        dm_call(v, n, 2050, random_seed)

\* one pass of the inner loop: shock = np.random.normal(0, vol); ppp *= (1 + drift + shock);
\* after the last year of a path, results.append(ppp)
path_step(start, horizon) ==
    /\ pc = "running"
    /\ Len(results) < n_sim
    /\ LET from == IF year = 0 THEN start ELSE ppp
           sh == np_random_normal(rng, vol)
           new == grow(from, drift, sh)
       IN  /\ rng' = rng_next(rng)
           /\ shock' = sh
           /\ prev_ppp' = from
           /\ ppp' = new
           /\ draws' = draws + 1
           /\ IF year + 1 = horizon
              THEN /\ year' = 0
                   /\ results' = Append(results, new)
              ELSE /\ year' = year + 1
                   /\ results' = results
    /\ UNCHANGED <<alpha_scale, pc, engine, cur_map, vec, n_sim, seed, drift, vol, ret,
                   first, later, target_year_arg>>
    /\ UNCHANGED cal_vars
    /\ UNCHANGED thread_vars
    /\ UNCHANGED opt_vars

app_step == engine = "app" /\ path_step(base_ag_ppp, app_n_years)

dm_step == engine = "dm" /\ path_step(dm_base_ag_ppp, n_years)

\* the statistics and the return, once every path is done
return_record(target) ==
    /\ pc = "running"
    /\ Len(results) = n_sim
    /\ pc' = "returned"
    /\ ret' = Some(result_record(results, target))
    /\ first' = IF first = None
                THEN Some([engine |-> engine, vec |-> vec, n_sim |-> n_sim,
                           seed |-> seed, alpha_scale |-> alpha_scale,
                           record |-> result_record(results, target)])
                ELSE first
    /\ UNCHANGED <<rng, alpha_scale, engine, cur_map, vec, n_sim, seed, drift, vol,
                   year, ppp, prev_ppp, shock, results, draws, later, target_year_arg>>
    /\ UNCHANGED cal_vars
    /\ UNCHANGED thread_vars
    /\ UNCHANGED opt_vars

app_return == engine = "app" /\ return_record(target_ag_ppp)

dm_return == engine = "dm" /\ return_record(dm_target_ag_ppp)

Next ==
    \/ run_simulation
    \/ projection
    \/ dm_run_simulation
    \/ app_step
    \/ dm_step
    \/ app_return
    \/ dm_return

Spec == Init /\ [][Next]_vars

(***************************************************************************)
(* run_simulation of data/models called with a target year.                *)
(***************************************************************************)
\* target_year of a call: the year after the base year, the default, the year after it
TargetYears == {dm_base_year + 1, 2050, 2051}

\* run_simulation(v, n_simulations = n, target_year = ty)
dm_run_simulation_to ==
    \E v \in {Uniform(20, 0), Uniform(20, 13)}, n \in Counts, ty \in TargetYears :
        dm_call(v, n, ty, 42)

\* simulation_params.target_year of the returned dictionary: the argument
echoed_target_year == target_year_arg

NextYear ==
    \/ dm_run_simulation_to
    \/ dm_step
    \/ dm_return

SpecYear == Init /\ [][NextYear]_vars

(***************************************************************************)
(* Two projection requests served by different threads of the one process. *)
(* Each thread has its own locals of run_simulation; np.random is the      *)
(* generator of the process.  A thread can be suspended between any two of *)
(* its calls of np.random; the processor changes thread at most            *)
(* MaxSwitches times.                                                      *)
(***************************************************************************)
Threads == {"t1", "t2"}

MaxSwitches == 2

\* the mappings the two requests carry; each asks for one path
ThreadMappings == {create_payload(35), All100}

\* thread t may run now
scheduled(t) == current \in {t, "none"} \/ switches < MaxSwitches

\* thread t runs
schedule(t) ==
    /\ current' = t
    /\ switches' = IF current \in {t, "none"} THEN switches ELSE switches + 1

\* projection in thread t up to the path loop of run_simulation: the vector, the reseed,
\* drift and vol
thread_enter ==
    \E t \in Threads, m \in ThreadMappings :
        /\ threads[t].pc = "idle"
        /\ scheduled(t)
        /\ schedule(t)
        /\ rng' = app_reseed(rng)
        /\ threads' = [threads EXCEPT ![t] =
                          [pc |-> "running",
                           vec |-> interventions_to_vector(m),
                           n_sim |-> 1,
                           drift |-> app_drift(interventions_to_vector(m), alpha_scale),
                           vol |-> app_vol(interventions_to_vector(m)),
                           year |-> 0,
                           ppp |-> base_ag_ppp,
                           results |-> << >>,
                           ret |-> None]]
        /\ UNCHANGED alpha_scale
        /\ UNCHANGED call_vars
        /\ UNCHANGED cal_vars
        /\ UNCHANGED opt_vars

\* one pass of the inner loop in thread t
thread_step ==
    \E t \in Threads :
        /\ threads[t].pc = "running"
        /\ Len(threads[t].results) < threads[t].n_sim
        /\ scheduled(t)
        /\ schedule(t)
        /\ LET my == threads[t]
               new == grow(my.ppp, my.drift, np_random_normal(rng, my.vol))
           IN  /\ rng' = rng_next(rng)
               /\ threads' = [threads EXCEPT ![t] =
                     IF my.year + 1 = app_n_years
                     THEN [my EXCEPT !.year = 0, !.ppp = base_ag_ppp,
                                     !.results = Append(my.results, new)]
                     ELSE [my EXCEPT !.year = my.year + 1, !.ppp = new]]
        /\ UNCHANGED alpha_scale
        /\ UNCHANGED call_vars
        /\ UNCHANGED cal_vars
        /\ UNCHANGED opt_vars

\* the statistics and the return in thread t
thread_return ==
    \E t \in Threads :
        /\ threads[t].pc = "running"
        /\ Len(threads[t].results) = threads[t].n_sim
        /\ scheduled(t)
        /\ schedule(t)
        /\ threads' = [threads EXCEPT ![t] =
                          [threads[t] EXCEPT !.pc = "returned",
                                             !.ret = Some(result_record(threads[t].results,
                                                                        target_ag_ppp))]]
        /\ UNCHANGED <<rng, alpha_scale>>
        /\ UNCHANGED call_vars
        /\ UNCHANGED cal_vars
        /\ UNCHANGED opt_vars

NextThreads ==
    \/ thread_enter
    \/ thread_step
    \/ thread_return

SpecThreads == Init /\ [][NextThreads]_vars

(***************************************************************************)
(* The number of paths of a projection request.  The request may omit      *)
(* n_simulations or carry any positive count; the path loop is followed    *)
(* for its first MaxDraws passes.                                          *)
(***************************************************************************)
\* Config.MAX_SIMULATIONS
MAX_SIMULATIONS == 10000

\* the passes of the path loop that are followed
MaxDraws == 27

\* n_simulations of a request: one path, about the maximum, beyond it
RequestCounts == {1, MAX_SIMULATIONS - 1, MAX_SIMULATIONS, MAX_SIMULATIONS + 1}

\* JSON bodies with and without 'n_simulations'
CountRequests ==
    {None}
        \cup {Some([interventions |-> m]) : m \in {EmptyMapping, create_payload(35), All100}}
        \cup {Some([interventions |-> m, n_simulations |-> n]) :
                m \in {EmptyMapping, create_payload(35), All100}, n \in RequestCounts}

\* a projection request with any n_simulations or none
projection_any == \E data \in CountRequests : projection_request(data)

\* the path loop of the request, for its first MaxDraws passes
counted_step == draws < MaxDraws /\ app_step

NextCount ==
    \/ projection_any
    \/ counted_step
    \/ app_return

SpecCount == Init /\ [][NextCount]_vars

(***************************************************************************)
(* run_simulation as one step: the value a call returns and the state it   *)
(* leaves the generator in, computed as the loop computes them.            *)
(***************************************************************************)
RECURSIVE path_end(_, _, _, _, _)
\* the value of a path after k more steps, the generator being in state s
path_end(s, value, d, vl, k) ==
    IF k = 0 THEN value
    ELSE path_end(rng_next(s), grow(value, d, np_random_normal(s, vl)), d, vl, k - 1)

RECURSIVE path_starts(_, _, _)
\* the generator states at which successive paths of horizon draws start, the states
\* of acc being those of the first paths: m states in all
path_starts(acc, horizon, m) ==
    IF Len(acc) >= m THEN acc
    ELSE path_starts(Append(acc, RngAfter(acc[Len(acc)], horizon)), horizon, m)

\* the terminal values of n paths simulated one after the other from state s
simulate(s, start, d, vl, horizon, n) ==
    LET at == SubSeq(path_starts(<<s>>, horizon, n), 1, n)
    IN  [i \in DOMAIN at |-> path_end(at[i], start, d, vl, horizon)]

\* the generator state after n paths of horizon draws each
RngAfterPaths(s, horizon, n) == path_starts(<<s>>, horizon, n + 1)[n + 1]

\* mc_engine.run_simulation(v, n_simulations = n) with mc_engine.alpha_scale = scale
app_run(s, v, scale, n) ==
    result_record(simulate(app_reseed(s), base_ag_ppp, app_drift(v, scale), app_vol(v),
                           app_n_years, n),
                  target_ag_ppp)

\* the generator after that call
app_rng_after(s, n) == RngAfterPaths(app_reseed(s), app_n_years, n)

(***************************************************************************)
(* data/models/monte_carlo.py: optimize_interventions                      *)
(***************************************************************************)
\* self.costs = np.array([i['cost'] for i in self.interventions])   (whole units)
costs == <<5, 4, 6, 3, 4, 5, 5, 4, 3, 6, 3, 4, 2, 3, 4, 3, 3, 4, 5, 3>>

\* one value of np.random.rand, in hundredths: [0, 1) -> 0 .. 99
rng_uniform(s) == (s * 100) \div 256

\* np.random.rand(k) drawn from state s
np_random_rand(s, k) == [j \in 1 .. k |-> rng_uniform(RngAfter(s, j - 1))]

\* the generator after np.random.rand(k)
np_random_rand_after(s, k) == RngAfter(s, k)

\* total_cost = np.dot(self.costs, random_vector)                  (hundredths)
opt_total_cost(v) == np_dot(costs, v)

\* if total_cost <= budget: break                      (budget in whole units)
within_budget(cost, b) == cost <= 100 * b

\* self.run_simulation(random_vector, n_simulations=n_simulations): target_year and
\* random_seed take their defaults, 2050 and 42
dm_run(s, v, n) ==
    result_record(simulate(dm_reseed(s, 42), dm_base_ag_ppp, dm_drift(v),
                           dm_volatility(v), n_years, n),
                  dm_target_ag_ppp)

\* the generator after that call
dm_rng_after(s, n) == RngAfterPaths(dm_reseed(s, 42), n_years, n)

\* if results['probability'] > best_probability
prob_greater(p, q) == p[1] * q[2] > q[1] * p[2]

\* the budgets a caller gives: the default 60 and one that rejects samples
Budgets == {60, 38}

\* the n_iterations a caller gives
MaxIterations == 3
IterationCounts == 0 .. MaxIterations

\* optimize_interventions up to its for loop
optimize_interventions ==
    \E b \in Budgets, n_it \in IterationCounts, n \in Counts :
        /\ opt.pc = "idle"
        /\ pc = "idle"
        /\ script = "none"
        /\ opt' = [pc |-> IF n_it = 0 THEN "done" ELSE "sampling",
                   budget |-> b, n_iterations |-> n_it, n_simulations |-> n, i |-> 0,
                   random_vector |-> << >>, total_cost |-> 0,
                   best_probability |-> <<0 - 1, 1>>, best_interventions |-> None,
                   best_cost |-> None, best_results |-> None,
                   candidates |-> << >>, ret |-> None]
        /\ UNCHANGED <<rng, alpha_scale>>
        /\ UNCHANGED call_vars
        /\ UNCHANGED cal_vars
        /\ UNCHANGED thread_vars

\* one pass of the while True loop, lines 141-146
opt_sample ==
    /\ opt.pc = "sampling"
    /\ LET random_vector == np_random_rand(rng, dm_n_interventions)
           total_cost == opt_total_cost(random_vector)
       IN  /\ rng' = np_random_rand_after(rng, dm_n_interventions)
           /\ opt' = [opt EXCEPT !.random_vector = random_vector,
                                 !.total_cost = total_cost,
                                 !.pc = IF within_budget(total_cost, opt.budget)
                                        THEN "simulate" ELSE "sampling"]
    /\ UNCHANGED alpha_scale
    /\ UNCHANGED call_vars
    /\ UNCHANGED cal_vars
    /\ UNCHANGED thread_vars

\* the rest of the body of the for loop, lines 148-156: the simulation of the accepted
\* sample and the comparison with the best so far
opt_evaluate ==
    /\ opt.pc = "simulate"
    /\ LET run_results == dm_run(rng, opt.random_vector, opt.n_simulations)
           better == prob_greater(run_results.probability, opt.best_probability)
       IN  /\ rng' = dm_rng_after(rng, opt.n_simulations)
           /\ opt' = [opt EXCEPT
                        !.candidates = Append(@, [vector |-> opt.random_vector,
                                                  total_cost |-> opt.total_cost]),
                        !.best_probability = IF better THEN run_results.probability ELSE @,
                        !.best_interventions = IF better THEN Some(opt.random_vector) ELSE @,
                        !.best_cost = IF better THEN Some(opt.total_cost) ELSE @,
                        !.best_results = IF better THEN Some(run_results) ELSE @,
                        !.i = @ + 1,
                        !.pc = IF opt.i + 1 < opt.n_iterations THEN "sampling" ELSE "done"]
    /\ UNCHANGED alpha_scale
    /\ UNCHANGED call_vars
    /\ UNCHANGED cal_vars
    /\ UNCHANGED thread_vars

\* the return statement, lines 158-164; float(best_cost) raises TypeError when no
\* iteration ran and best_cost is None
opt_return ==
    /\ opt.pc = "done"
    /\ IF opt.best_cost = None
       THEN opt' = [opt EXCEPT !.pc = "raised"]
       ELSE opt' = [opt EXCEPT
                      !.pc = "returned",
                      !.ret = Some([optimized_interventions |-> opt.best_interventions[1],
                                    probability |-> opt.best_probability,
                                    total_cost |-> opt.best_cost[1],
                                    budget_utilization |-> opt.best_cost[1] \div opt.budget,
                                    results |-> opt.best_results[1]])]
    /\ UNCHANGED <<rng, alpha_scale>>
    /\ UNCHANGED call_vars
    /\ UNCHANGED cal_vars
    /\ UNCHANGED thread_vars

NextOpt ==
    \/ optimize_interventions
    \/ opt_sample
    \/ opt_evaluate
    \/ opt_return

SpecOpt == Init /\ [][NextOpt]_vars

(***************************************************************************)
(* Comparisons of a probability <<successes, paths>> with a target and a   *)
(* tolerance in thousandths.                                               *)
(***************************************************************************)
\* prob < target_prob
prob_lt(p, t) == 1000 * p[1] < t * p[2]

\* prob > target_prob
prob_gt(p, t) == 1000 * p[1] > t * p[2]

\* abs(prob - target_prob), in units of 1 / (1000 * paths)
abs_error(p, t) ==
    LET e == 1000 * p[1] - t * p[2] IN IF e < 0 THEN 0 - e ELSE e

\* variant: the midpoint taken at the lower end
midpoint_at_low(lo, hi) == lo

\* mid = (low + high) / 2
midpoint(lo, hi) == (lo + hi) \div 2

(***************************************************************************)
(* calibrate.py                                                            *)
(***************************************************************************)
\* low, high = 0.05, 0.30                                          (1e-6)
calibrate_low == 50000
calibrate_high == 300000

\* the values calibrate bisects are kept in 1e-6, mc_engine.alpha_scale in 1e-4:
\* the value the engine is given, and the engine's value as calibrate reads it
engine_scale(x) == x \div 100
loop_scale(scale) == 100 * scale

\* max_iterations = 15
calibrate_max_iterations == 15

\* target_prob and tolerance of a call of calibrate: those of __main__ and others
Targets == {800, 900, 1000}
Tolerances == {10, 100}

\* the path counts the model gives a script in place of 2000 or 3000
CalCounts == {CalN, CalN + 1}

\* variant: the simulation runs after the original scale was put back
scale_during_test_restored(argument, original_scale) == original_scale

\* test_alpha_scale: mc_engine.alpha_scale = alpha_scale, in force during the run
scale_during_test(argument, original_scale) == argument

\* variant: the tested value is left on the engine
scale_after_test_kept(argument, original_scale) == argument

\* test_alpha_scale: mc_engine.alpha_scale = original_scale, before it returns
scale_after_test(argument, original_scale) == original_scale

\* test_alpha_scale(argument): the probability it returns, the engine holding
\* original_scale and the generator being in state s when it is called
test_alpha_scale(s, argument, original_scale, n) ==
    app_run(s, interventions_to_vector(All100),
            scale_during_test(engine_scale(argument), original_scale), n).probability

\* if abs(prob - target_prob) <= tolerance
calibrate_converged(p, t, tol) == abs_error(p, t) <= tol * p[2]

\* variant: one more pass of the loop
calibrate_continues_once_more(it) == it <= calibrate_max_iterations

\* while iterations < max_iterations
calibrate_continues(it) == it < calibrate_max_iterations

\* if prob < target_prob: high = mid, else: low = mid; the new <<low, high>>
calibrate_narrow(lo, hi, m, p, t) == IF prob_lt(p, t) THEN <<lo, m>> ELSE <<m, hi>>

\* return mid, prob
calibrate_result(m, p, bs, bp) == [value |-> m, probability |-> p]

\* the locals of calibrate_both.py
both_vars == <<ba_low, ba_high, ba_mid, as_low, as_high, as_mid, prob_base, prob_max>>

\* calibrate(target_prob, tolerance), lines 34-42: the interval, then the evaluation of
\* the engine's current alpha_scale
calibrate ==
    \E t \in Targets, tol \in Tolerances, n \in CalCounts :
        /\ script = "none"
        /\ pc = "idle"
        /\ script' = "calibrate"
        /\ cal_pc' = "loop"
        /\ n_paths' = n
        /\ target_prob' = t
        /\ tolerance' = tol
        /\ low' = calibrate_low
        /\ high' = calibrate_high
        /\ best_scale' = loop_scale(alpha_scale)
        /\ best_prob' = test_alpha_scale(rng, loop_scale(alpha_scale), alpha_scale, n)
        /\ alpha_scale' = scale_after_test(engine_scale(loop_scale(alpha_scale)), alpha_scale)
        /\ rng' = app_rng_after(rng, n)
        /\ iterations' = 0
        /\ evaluated' = << <<loop_scale(alpha_scale), best_prob'>> >>
        /\ UNCHANGED <<mid, prob, report>>
        /\ UNCHANGED both_vars
        /\ UNCHANGED call_vars
        /\ UNCHANGED thread_vars
        /\ UNCHANGED opt_vars

\* one pass of the while loop, lines 44-62
calibrate_iteration ==
    /\ script = "calibrate"
    /\ cal_pc = "loop"
    /\ calibrate_continues(iterations)
    /\ LET m == midpoint(low, high)
           p == test_alpha_scale(rng, m, alpha_scale, n_paths)
       IN  /\ mid' = m
           /\ prob' = p
           /\ alpha_scale' = scale_after_test(engine_scale(m), alpha_scale)
           /\ rng' = app_rng_after(rng, n_paths)
           /\ iterations' = iterations + 1
           /\ evaluated' = Append(evaluated, <<m, p>>)
           /\ IF calibrate_converged(p, target_prob, tolerance)
              THEN /\ cal_pc' = "converged"
                   /\ report' = Some(calibrate_result(m, p, best_scale, best_prob))
                   /\ UNCHANGED <<low, high>>
              ELSE /\ cal_pc' = "loop"
                   /\ report' = report
                   /\ low' = calibrate_narrow(low, high, m, p, target_prob)[1]
                   /\ high' = calibrate_narrow(low, high, m, p, target_prob)[2]
    /\ UNCHANGED <<script, n_paths, target_prob, tolerance, best_scale, best_prob>>
    /\ UNCHANGED both_vars
    /\ UNCHANGED call_vars
    /\ UNCHANGED thread_vars
    /\ UNCHANGED opt_vars

\* the loop ended without converging, lines 64-65
calibrate_exhausted ==
    /\ script = "calibrate"
    /\ cal_pc = "loop"
    /\ ~ calibrate_continues(iterations)
    /\ cal_pc' = "exhausted"
    /\ report' = Some(calibrate_result(mid, prob, best_scale, best_prob))
    /\ UNCHANGED <<rng, alpha_scale, script, n_paths, target_prob, tolerance, low, high,
                   mid, prob, iterations, best_scale, best_prob, evaluated>>
    /\ UNCHANGED both_vars
    /\ UNCHANGED call_vars
    /\ UNCHANGED thread_vars
    /\ UNCHANGED opt_vars

(***************************************************************************)
(* The standalone scripts calibrate_alpha_scale.py, calibrate_baseline.py, *)
(* recalibrate_baseline.py, calibrate_two_step.py and calibrate_both.py.   *)
(* Each defines its own MonteCarloEngine: the constructor literals other   *)
(* than baseline_alpha and alpha_scale, the coefficient arrays and         *)
(* run_simulation repeat those of app.py.                                  *)
(***************************************************************************)
\* baseline_vector = np.ones(20) * 0.35; baseline_vector[-1] = 0.40
script_baseline_vector == [i \in 1 .. 20 |-> IF i = 20 THEN 40 ELSE 35]

\* maximum_vector = np.ones(20) * 1.0; maximum_vector[-1] = 0.0
script_maximum_vector == [i \in 1 .. 20 |-> IF i = 20 THEN 0 ELSE 100]

\* baseline_vector = np.zeros(20)
script_zero_vector == [i \in 1 .. 20 |-> 0]

\* verify_calibration.py: full_vector = np.ones(20); full_vector[12] = 0
verify_full_vector == [i \in 1 .. 20 |-> IF i = 13 THEN 0 ELSE 100]

\* variant: baseline_alpha left out of the drift
script_drift_without_baseline(ba, scale, v) ==
    base_growth_rate + (np_dot(effective_alpha(scale), v) \div 10)

\* drift of a script's engine: alpha_scale in 1e-5, the sum rounded down to 1e-9
script_drift(ba, scale, v) ==
    base_growth_rate + ba + (np_dot(effective_alpha(scale), v) \div 10)

\* vol of a script's engine
script_vol(v) ==
    Max(volatility_floor, base_volatility - np_dot(effective_beta, v))

\* MonteCarloEngine(baseline_alpha = ba, alpha_scale = scale).run_simulation(v, n):
\* results, the terminal values of the paths
script_results(s, ba, scale, v, n) ==
    simulate(np_random_seed(42), base_ag_ppp, script_drift(ba, scale, v), script_vol(v),
             target_year - base_year, n)

\* the probability it returns
script_run(s, ba, scale, v, n) ==
    probability(script_results(s, ba, scale, v, n), target_ag_ppp)

\* the generator after that call
script_rng_after(s, n) == RngAfterPaths(np_random_seed(42), target_year - base_year, n)

\* calibrate_alpha_scale.py: the loop calibrates alpha_scale on the maximum vector
calibrate_alpha_scale_py ==
    [parameter |-> "alpha_scale", low |-> 1000, high |-> 30000, width |-> 100,
     tolerance |-> 10, max_iterations |-> 40, target_prob |-> 900,
     vector |-> script_maximum_vector, baseline_alpha |-> 18550000, alpha_scale |-> 17500,
     tests_first |-> TRUE, on_exhaustion |-> "estimate"]

\* calibrate_baseline.py: the loop calibrates baseline_alpha on the zero vector
calibrate_baseline_py ==
    [parameter |-> "baseline_alpha", low |-> 1000000, high |-> 150000000,
     width |-> 100000, tolerance |-> 5, max_iterations |-> 25, target_prob |-> 450,
     vector |-> script_zero_vector, baseline_alpha |-> 42000000, alpha_scale |-> 17500,
     tests_first |-> TRUE, on_exhaustion |-> "evaluate"]

\* recalibrate_baseline.py: the loop calibrates baseline_alpha on the baseline vector
recalibrate_baseline_py ==
    [parameter |-> "baseline_alpha", low |-> 0 - 100000000, high |-> 100000000,
     width |-> 100000, tolerance |-> 5, max_iterations |-> 50, target_prob |-> 450,
     vector |-> script_baseline_vector, baseline_alpha |-> 35190000, alpha_scale |-> 17500,
     tests_first |-> FALSE, on_exhaustion |-> "estimate"]

\* calibrate_two_step.py: the loop calibrates baseline_alpha on the baseline vector; the
\* while statement has no else clause
calibrate_two_step_py ==
    [parameter |-> "baseline_alpha", low |-> 0 - 50000000, high |-> 100000000,
     width |-> 100000, tolerance |-> 5, max_iterations |-> 50, target_prob |-> 450,
     vector |-> script_baseline_vector, baseline_alpha |-> 18550000, alpha_scale |-> 12328,
     tests_first |-> FALSE, on_exhaustion |-> "nothing"]

StandaloneScripts ==
    {"calibrate_alpha_scale", "calibrate_baseline", "recalibrate_baseline",
     "calibrate_two_step"}

\* the literals of a standalone script
script_config(name) ==
    CASE name = "calibrate_alpha_scale" -> calibrate_alpha_scale_py
      [] name = "calibrate_baseline" -> calibrate_baseline_py
      [] name = "recalibrate_baseline" -> recalibrate_baseline_py
      [] name = "calibrate_two_step" -> calibrate_two_step_py

\* engine = MonteCarloEngine(<parameter> = m); the probability the loop compares
script_prob(s, cfg, m, n) ==
    IF cfg.parameter = "alpha_scale"
    THEN script_run(s, cfg.baseline_alpha, m, cfg.vector, n)
    ELSE script_run(s, m, cfg.alpha_scale, cfg.vector, n)

\* variant: the budget alone ends the loop
script_continues_budget_only(cfg, lo, hi, it) == it < cfg.max_iterations

\* while (high - low) > width and iteration < max_iterations
script_continues(cfg, lo, hi, it) == (hi - lo) > cfg.width /\ it < cfg.max_iterations

\* if abs(prob - target_prob) < tolerance
script_converged(p, t, tol) == abs_error(p, t) < tol * p[2]

\* variant: the halves exchanged
script_narrow_reversed(lo, hi, m, p, t) == IF prob_gt(p, t) THEN <<m, hi>> ELSE <<lo, m>>

\* elif prob > target_prob: high = mid, else: low = mid; the new <<low, high>>
script_narrow(lo, hi, m, p, t) == IF prob_gt(p, t) THEN <<lo, m>> ELSE <<m, hi>>

\* a standalone script up to its loop
script_start ==
    \E name \in StandaloneScripts, n \in CalCounts :
        /\ script = "none"
        /\ pc = "idle"
        /\ script' = name
        /\ cal_pc' = "loop"
        /\ n_paths' = n
        /\ target_prob' = script_config(name).target_prob
        /\ tolerance' = script_config(name).tolerance
        /\ low' = script_config(name).low
        /\ high' = script_config(name).high
        /\ iterations' = 0
        /\ rng' = IF script_config(name).tests_first THEN script_rng_after(rng, n) ELSE rng
        /\ UNCHANGED <<alpha_scale, mid, prob, best_scale, best_prob, report, evaluated>>
        /\ UNCHANGED both_vars
        /\ UNCHANGED call_vars
        /\ UNCHANGED thread_vars
        /\ UNCHANGED opt_vars

\* one pass of the while loop of a standalone script
script_iteration ==
    /\ script \in StandaloneScripts
    /\ cal_pc = "loop"
    /\ script_continues(script_config(script), low, high, iterations)
    /\ LET m == midpoint(low, high)
           p == script_prob(rng, script_config(script), m, n_paths)
       IN  /\ mid' = m
           /\ prob' = p
           /\ rng' = script_rng_after(rng, n_paths)
           /\ iterations' = iterations + 1
           /\ evaluated' = Append(evaluated, <<m, p>>)
           /\ IF script_converged(p, target_prob, tolerance)
              THEN /\ cal_pc' = "converged"
                   /\ report' = Some([value |-> m, probability |-> p])
                   /\ UNCHANGED <<low, high>>
              ELSE /\ cal_pc' = "loop"
                   /\ report' = report
                   /\ low' = script_narrow(low, high, m, p, target_prob)[1]
                   /\ high' = script_narrow(low, high, m, p, target_prob)[2]
    /\ UNCHANGED <<alpha_scale, script, n_paths, target_prob, tolerance, best_scale,
                   best_prob>>
    /\ UNCHANGED both_vars
    /\ UNCHANGED call_vars
    /\ UNCHANGED thread_vars
    /\ UNCHANGED opt_vars

\* the loop condition failed: the else clause of the while statement, which evaluates
\* the midpoint of the final interval and prints it, under the names mid and prob
\* ("evaluate") or under names of its own ("estimate"); calibrate_two_step.py has none
script_else ==
    /\ script \in StandaloneScripts
    /\ cal_pc = "loop"
    /\ ~ script_continues(script_config(script), low, high, iterations)
    /\ cal_pc' = "exhausted"
    /\ IF script_config(script).on_exhaustion \in {"evaluate", "estimate"}
       THEN LET m == midpoint(low, high)
                p == script_prob(rng, script_config(script), m, n_paths)
            IN  /\ mid' = IF script_config(script).on_exhaustion = "evaluate" THEN m ELSE mid
                /\ prob' = IF script_config(script).on_exhaustion = "evaluate" THEN p ELSE prob
                /\ rng' = script_rng_after(rng, n_paths)
                /\ evaluated' = Append(evaluated, <<m, p>>)
                /\ report' = Some([value |-> m, probability |-> p])
       ELSE UNCHANGED <<mid, prob, rng, evaluated, report>>
    /\ UNCHANGED <<alpha_scale, script, n_paths, target_prob, tolerance, low, high,
                   iterations, best_scale, best_prob>>
    /\ UNCHANGED both_vars
    /\ UNCHANGED call_vars
    /\ UNCHANGED thread_vars
    /\ UNCHANGED opt_vars

\* calibrate_both.py: the two intervals, the budget, the targets and the tolerance
calibrate_both_py ==
    [ba_low |-> 0, ba_high |-> 50000000, as_low |-> 8000, as_high |-> 16000,
     max_iterations |-> 100, target_base |-> 450, target_max |-> 900, tolerance |-> 15]

\* variant: one of the two errors within the tolerance is enough
both_converged_either(pb, pm) ==
    \/ abs_error(pb, calibrate_both_py.target_base) < calibrate_both_py.tolerance * pb[2]
    \/ abs_error(pm, calibrate_both_py.target_max) < calibrate_both_py.tolerance * pm[2]

\* if base_error < 0.015 and max_error < 0.015
both_converged(pb, pm) ==
    /\ abs_error(pb, calibrate_both_py.target_base) < calibrate_both_py.tolerance * pb[2]
    /\ abs_error(pm, calibrate_both_py.target_max) < calibrate_both_py.tolerance * pm[2]

\* while iteration < max_iterations
both_continues(it) == it < calibrate_both_py.max_iterations

\* if prob_base < 0.45: ba_low = ba_mid, else: ba_high = ba_mid; the new interval
both_narrow_ba(lo, hi, m, pb) ==
    IF prob_lt(pb, calibrate_both_py.target_base) THEN <<m, hi>> ELSE <<lo, m>>

\* if prob_max < 0.90: as_low = as_mid, else: as_high = as_mid; the new interval
both_narrow_as(lo, hi, m, pm) ==
    IF prob_lt(pm, calibrate_both_py.target_max) THEN <<m, hi>> ELSE <<lo, m>>

\* what calibrate_both.py prints as its result
both_report(bm, am, pb, pm) ==
    [baseline_alpha |-> bm, alpha_scale |-> am, prob_base |-> pb, prob_max |-> pm]

\* calibrate_both.py up to its loop
both_start ==
    \E n \in CalCounts :
        /\ script = "none"
        /\ pc = "idle"
        /\ script' = "calibrate_both"
        /\ cal_pc' = "loop"
        /\ n_paths' = n
        /\ ba_low' = calibrate_both_py.ba_low
        /\ ba_high' = calibrate_both_py.ba_high
        /\ as_low' = calibrate_both_py.as_low
        /\ as_high' = calibrate_both_py.as_high
        /\ iterations' = 0
        /\ UNCHANGED <<rng, alpha_scale, target_prob, tolerance, low, high, mid, prob,
                       best_scale, best_prob, ba_mid, as_mid, prob_base, prob_max,
                       report, evaluated>>
        /\ UNCHANGED call_vars
        /\ UNCHANGED thread_vars
        /\ UNCHANGED opt_vars

\* one pass of the while loop of calibrate_both.py, lines 73-108
both_iteration ==
    /\ script = "calibrate_both"
    /\ cal_pc = "loop"
    /\ both_continues(iterations)
    /\ LET bm == midpoint(ba_low, ba_high)
           am == midpoint(as_low, as_high)
           pb == script_run(rng, bm, am, script_baseline_vector, n_paths)
           pm == script_run(rng, bm, am, script_maximum_vector, n_paths)
       IN  /\ ba_mid' = bm
           /\ as_mid' = am
           /\ prob_base' = pb
           /\ prob_max' = pm
           /\ rng' = script_rng_after(rng, n_paths)
           /\ iterations' = iterations + 1
           /\ IF both_converged(pb, pm)
              THEN /\ cal_pc' = "converged"
                   /\ report' = Some(both_report(bm, am, pb, pm))
                   /\ UNCHANGED <<ba_low, ba_high, as_low, as_high>>
              ELSE /\ cal_pc' = "loop"
                   /\ report' = report
                   /\ ba_low' = both_narrow_ba(ba_low, ba_high, bm, pb)[1]
                   /\ ba_high' = both_narrow_ba(ba_low, ba_high, bm, pb)[2]
                   /\ as_low' = both_narrow_as(as_low, as_high, am, pm)[1]
                   /\ as_high' = both_narrow_as(as_low, as_high, am, pm)[2]
    /\ UNCHANGED <<alpha_scale, script, n_paths, target_prob, tolerance, low, high, mid,
                   prob, best_scale, best_prob, evaluated>>
    /\ UNCHANGED call_vars
    /\ UNCHANGED thread_vars
    /\ UNCHANGED opt_vars

\* the else clause of the while statement of calibrate_both.py, lines 109-115
both_else ==
    /\ script = "calibrate_both"
    /\ cal_pc = "loop"
    /\ ~ both_continues(iterations)
    /\ cal_pc' = "exhausted"
    /\ report' = Some(both_report(ba_mid, as_mid, prob_base, prob_max))
    /\ UNCHANGED <<rng, alpha_scale, script, n_paths, target_prob, tolerance, low, high,
                   mid, prob, iterations, best_scale, best_prob, evaluated>>
    /\ UNCHANGED both_vars
    /\ UNCHANGED call_vars
    /\ UNCHANGED thread_vars
    /\ UNCHANGED opt_vars

NextCal ==
    \/ calibrate
    \/ calibrate_iteration
    \/ calibrate_exhausted
    \/ script_start
    \/ script_iteration
    \/ script_else
    \/ both_start
    \/ both_iteration
    \/ both_else

\* the process that runs a calibration script
SpecCal == Init /\ [][NextCal]_vars

(***************************************************************************)
(* Properties.                                                             *)
(***************************************************************************)
Returned == pc = "returned"

InCall == pc \in {"running", "returned"}

\* the first recorded call had the arguments and engine parameters of the present one
SameCallAsFirst ==
    /\ first # None
    /\ first[1].engine = engine
    /\ first[1].vec = vec
    /\ first[1].n_sim = n_sim
    /\ first[1].seed = seed
    /\ first[1].alpha_scale = alpha_scale

\* C1: a call returns the distribution the first call with the same vector, the same
\* n_simulations and the same seed returned (same values in the same order), whatever
\* state the generator was in before that first call and whatever calls ran in between;
\* for both engines.
C1_Determinism ==
    (Returned /\ SameCallAsFirst) =>
        ret[1].distribution = first[1].record.distribution

\* a later call of the serving engine repeats the first call's arguments and returns
C1_Witness ==
    /\ Returned /\ later /\ SameCallAsFirst
    /\ engine = "app"
    /\ n_sim = MaxN

\* C2: a vector whose length is not the number of levers never reaches the loop and
\* never yields a record: the call raises; for both engines.
C2_LengthValidation ==
    /\ InCall => Len(vec) = 20
    /\ ret # None => (Returned /\ Len(vec) = 20)
    /\ pc = "raised" => (Len(vec) # 20 /\ ret = None /\ results = << >> /\ draws = 0)

\* the serving engine raised on a vector of length 1
C2_Witness ==
    /\ pc = "raised"
    /\ engine = "app"
    /\ Len(vec) = 1
    /\ ret = None

RECURSIVE SumOver(_, _)
\* f[1] + ... + f[k]
SumOver(f, k) == IF k = 0 THEN 0 ELSE SumOver(f, k - 1) + f[k]

AppCall == engine = "app" /\ InCall

\* base_growth_rate + baseline_alpha + sum of alpha_scale * alpha_i * vector_i   (1e-9)
DriftFormula ==
    base_growth_rate + baseline_alpha
        + SumOver([i \in 1 .. 20 |-> alpha_scale * alpha[i] * vec[i]], 20)

\* C3: in a call of the serving engine the drift is base_growth_rate + baseline_alpha +
\* the sum over the 20 levers of alpha_scale * alpha_i * vector_i, with no bound applied,
\* and every step of every path of the call multiplies by 1 + that drift + its shock.
C3_DriftFormula ==
    AppCall =>
        /\ drift = DriftFormula
        /\ draws > 0 => ppp = prev_ppp + MulRate(prev_ppp, DriftFormula + shock)

\* an out-of-range request is in its second path: the unbounded drift is still in use
C3_Witness ==
    /\ AppCall
    /\ cur_map = Some(OutOfRange)
    /\ \E i \in 1 .. 20 : vec[i] > 100
    /\ \E i \in 1 .. 20 : vec[i] < 0
    /\ Len(results) = 1
    /\ year > 0

\* sum of beta_scale * beta_i * vector_i   (1e-6)
BetaSum == SumOver([i \in 1 .. 20 |-> beta_scale * beta[i] * vec[i]], 20)

\* C4: the volatility of a call of the serving engine is
\* max(volatility_floor, base_volatility - sum of beta_scale * beta_i * vector_i): never
\* below the floor, and exactly the floor when the sum exceeds
\* base_volatility - volatility_floor.
C4_VolatilityFloor ==
    AppCall =>
        /\ vol = IF base_volatility - BetaSum >= volatility_floor
                 THEN base_volatility - BetaSum
                 ELSE volatility_floor
        /\ vol >= volatility_floor
        /\ BetaSum > base_volatility - volatility_floor => vol = volatility_floor

\* a call whose beta-weighted sum is above the threshold draws with the floor
C4_Witness ==
    /\ AppCall
    /\ draws > 0
    /\ BetaSum > base_volatility - volatility_floor
    /\ base_volatility - BetaSum < 0
    /\ vol = volatility_floor

\* a call whose volatility is above the floor (a negative entry)
C4_AboveFloorReached ==
    /\ AppCall
    /\ draws > 0
    /\ vol > volatility_floor

C5_State ==
    AppCall =>
        /\ year \in 0 .. 24
        /\ Len(results) <= n_sim
        /\ draws = 25 * Len(results) + year
        /\ rng = RngAfter(np_random_seed(42), draws)
        /\ draws > 0 =>
            /\ shock = vol * rng_deviate(RngAfter(np_random_seed(42), draws - 1)) * 100
            /\ ppp = prev_ppp + MulRate(prev_ppp, drift + shock)
            /\ year = 1 => prev_ppp = 803
            /\ year = 0 => results[Len(results)] = ppp
        /\ Returned =>
            /\ draws = n_sim * 25
            /\ Len(ret[1].distribution) = n_sim
            /\ ret[1].distribution = results

C5_Step ==
    (engine = "app" /\ pc = "running" /\ draws' # draws) =>
        /\ draws' = draws + 1
        /\ rng' = rng_next(rng)
        /\ prev_ppp' = IF year = 0 THEN 803 ELSE ppp
        /\ UNCHANGED <<drift, vol>>

\* C5: in a call of the serving engine every path starts at 803 and is advanced by
\* exactly 25 steps value <- value * (1 + drift + shock); each step consumes the next
\* draw of the generator seeded with 42, paths one after the other, so the call
\* consumes N * 25 draws and returns N terminal values.
C5_PathSimulation == [](C5_State) /\ [][C5_Step]_vars

\* a call of two paths returned
C5_Witness ==
    /\ engine = "app"
    /\ Returned
    /\ n_sim = 2
    /\ draws = 50
    /\ Len(ret[1].distribution) = 2

TargetOfEngine == IF engine = "app" THEN 7000 ELSE dm_target_ag_ppp

\* C6: the returned probability is (number of paths whose terminal value >= the target)
\* / N with N >= 1: a path ending exactly at the target is a success, and the numerator
\* is a whole number between 0 and N; for both engines.
C6_SuccessProbability ==
    Returned =>
        LET d == ret[1].distribution
            pr == ret[1].probability
        IN  /\ n_sim >= 1
            /\ pr[2] = n_sim
            /\ pr[1] = Cardinality({i \in 1 .. Len(d) : d[i] >= TargetOfEngine})
            /\ 0 <= pr[1]
            /\ pr[1] <= pr[2]

\* a path ended exactly at the target and was counted
C6_Witness ==
    /\ Returned
    /\ \E i \in 1 .. Len(ret[1].distribution) : ret[1].distribution[i] = TargetOfEngine
    /\ ret[1].probability[1] >= 1

\* every entry of v is an intensity in [0, 1]
InRange(v) == \A i \in 1 .. Len(v) : 0 <= v[i] /\ v[i] <= 100

\* a <= b elementwise
LeqVec(a, b) == Len(a) = Len(b) /\ \A i \in 1 .. Len(a) : a[i] <= b[i]

LeqDist(a, b) == Len(a) = Len(b) /\ \A i \in 1 .. Len(a) : a[i] <= b[i]

\* the present call and the first call are calls of the serving engine with the serving
\* parameters, the same N and in-range vectors
ComparableWithFirst ==
    /\ Returned
    /\ first # None
    /\ engine = "app"
    /\ first[1].engine = "app"
    /\ first[1].n_sim = n_sim
    /\ alpha_scale = initial_alpha_scale
    /\ first[1].alpha_scale = alpha_scale
    /\ InRange(vec)
    /\ InRange(first[1].vec)

\* C7: for in-range vectors A <= B elementwise, the serving parameters and the same N,
\* every path's terminal value for B is at least that path's terminal value for A, and
\* the success probability for B is at least that for A.
C7_Monotonicity ==
    ComparableWithFirst =>
        LET a == first[1].record
            b == ret[1]
        IN  /\ LeqVec(first[1].vec, vec) =>
                /\ LeqDist(a.distribution, b.distribution)
                /\ a.probability[1] <= b.probability[1]
            /\ LeqVec(vec, first[1].vec) =>
                /\ LeqDist(b.distribution, a.distribution)
                /\ b.probability[1] <= a.probability[1]

\* a later call with a larger vector returned strictly more successes
C7_Witness ==
    /\ ComparableWithFirst
    /\ later
    /\ LeqVec(first[1].vec, vec)
    /\ vec # first[1].vec
    /\ n_sim = 2
    /\ ret[1].probability[1] > first[1].record.probability[1]

\* C8: with in-range vectors and the serving parameters the running value of every path
\* of the serving engine is strictly positive after every step, and so is every terminal
\* value.
C8_Positivity ==
    (AppCall /\ InRange(vec) /\ alpha_scale = initial_alpha_scale) =>
        /\ ppp > 0
        /\ prev_ppp > 0
        /\ \A i \in 1 .. Len(results) : results[i] > 0
        /\ Returned => \A i \in 1 .. Len(ret[1].distribution) : ret[1].distribution[i] > 0

\* a step whose shock outweighed the drift left the value positive
C8_Witness ==
    /\ AppCall
    /\ InRange(vec)
    /\ draws > 0
    /\ drift + shock < 0
    /\ ppp < prev_ppp
    /\ ppp > 0

\* the raw value of a lever: the value given, else 35, or 60 for Postharvest Loss (%)
RawOf(m, name) ==
    IF name \in DOMAIN m THEN m[name] ELSE IF name = PostharvestLoss THEN 60 ELSE 35

\* C9: interventions_to_vector sets the entry of every lever but Postharvest Loss (%) to
\* raw / 100 and that of Postharvest Loss (%) to (100 - raw) / 100; exactly one lever is
\* inverted; nothing is clamped or rejected, so an entry is in [0, 1] exactly when its
\* raw value is in [0, 100].
C9_Normalization ==
    cur_map # None =>
        /\ \A i \in 1 .. 20 :
            LET name == INTERVENTIONS[i]
                raw == RawOf(cur_map[1], name)
            IN  /\ vec[i] = IF name = PostharvestLoss THEN 100 - raw ELSE raw
                /\ (0 <= vec[i] /\ vec[i] <= 100) <=> (0 <= raw /\ raw <= 100)
        /\ Cardinality({i \in 1 .. 20 : effective_value(INTERVENTIONS[i], 0) # 0}) = 1

\* a request with raw values 101 and -1 is being simulated with entries outside [0, 1]
C9_Witness ==
    /\ cur_map = Some(JustOutside)
    /\ pc = "running"
    /\ \E i \in 1 .. 20 : INTERVENTIONS[i] # PostharvestLoss /\ vec[i] = 101
    /\ \E i \in 1 .. 20 : INTERVENTIONS[i] = PostharvestLoss /\ vec[i] = -1
    /\ \E i \in 1 .. 20 : vec[i] = -1 /\ INTERVENTIONS[i] # PostharvestLoss

\* the vector of the empty mapping: 0.35 everywhere, 0.40 for Postharvest Loss (%)
DefaultVector == [i \in 1 .. 20 |-> IF INTERVENTIONS[i] = PostharvestLoss THEN 40 ELSE 35]

C11_VectorLength ==
    cur_map # None =>
        /\ Len(vec) = 20
        /\ Len(vec) = Len(INTERVENTIONS)
        /\ Len(vec) = Len(alpha)
        /\ pc # "raised"
        /\ \A i \in 1 .. 20 :
            vec[i] = effective_value(INTERVENTIONS[i], RawOf(cur_map[1], INTERVENTIONS[i]))

\* a partial mapping with unknown keys is being simulated: 20 entries, the inverted
\* lever's entry at the 14th position
C11_Witness ==
    /\ cur_map = Some(BaselineTestMapping)
    /\ pc = "running"
    /\ Len(vec) = 20
    /\ INTERVENTIONS[14] = PostharvestLoss
    /\ vec[14] = 100
    /\ vec[13] = 35

\* the single-parameter calibrations
SingleParameter == StandaloneScripts \cup {"calibrate"}

\* C12: after each non-converging step of calibrate in calibrate.py, a probability below
\* the target at the midpoint makes the next midpoint larger than that midpoint, and a
\* probability above the target makes it smaller.
C12_BisectionDirection ==
    (script = "calibrate" /\ cal_pc = "loop" /\ iterations >= 1) =>
        /\ prob_lt(prob, target_prob) => midpoint(low, high) > mid
        /\ prob_gt(prob, target_prob) => midpoint(low, high) < mid

\* C13: calibrate in calibrate.py makes one initial evaluation and at most 15 midpoint
\* evaluations and ends with a returned pair; the loop of calibrate_both.py makes at most
\* 100 iterations and gives up only at the 100th; the reference vector has the length of
\* the coefficient arrays, so no evaluation raises.
C13_WithinBudget ==
    /\ Len(interventions_to_vector(All100)) = Len(alpha)
    /\ script = "calibrate" =>
        /\ iterations <= 15
        /\ Len(evaluated) = iterations + 1
        /\ cal_pc \in {"loop", "converged", "exhausted"}
        /\ cal_pc = "exhausted" => iterations = 15
        /\ cal_pc \in {"converged", "exhausted"} => report # None
    /\ script = "calibrate_both" =>
        /\ iterations <= 100
        /\ cal_pc \in {"loop", "converged", "exhausted"}
        /\ cal_pc = "exhausted" => (iterations = 100 /\ report # None)

\* calibrate has spent its whole budget: the initial evaluation and 15 midpoints
C13_Witness ==
    /\ script = "calibrate"
    /\ cal_pc = "exhausted"
    /\ iterations = 15
    /\ Len(evaluated) = 16
    /\ report # None

C15_BestPointOnExhaustion ==
    (script = "calibrate" /\ cal_pc = "exhausted") =>
        \A i \in DOMAIN evaluated :
            abs_error(report[1].probability, target_prob)
                <= abs_error(evaluated[i][2], target_prob)

\* C16: a single-parameter calibration stops as converged at a midpoint exactly when the
\* error at that midpoint is strictly below the tolerance; an error equal to the tolerance
\* leaves it bisecting.
C16_StrictCriterion ==
    (script \in SingleParameter /\ cal_pc \in {"loop", "converged"} /\ iterations >= 1) =>
        (cal_pc = "converged" <=>
            abs_error(prob, target_prob) < tolerance * prob[2])

\* C17: the pair calibrate in calibrate.py returns, converged or exhausted, is reproduced
\* by the engine run with alpha_scale set to the returned value, at the all-levers-100
\* vector and the same number of paths.
C17_RoundTrip ==
    (script = "calibrate" /\ report # None) =>
        report[1].probability =
            app_run(rng, interventions_to_vector(All100),
                    engine_scale(report[1].value), n_paths).probability

\* calibrate returned a value other than the engine's alpha_scale, with a probability
\* other than the one at the engine's alpha_scale
C17_Witness ==
    /\ script = "calibrate"
    /\ cal_pc = "exhausted"
    /\ report # None
    /\ engine_scale(report[1].value) # alpha_scale
    /\ report[1].probability # best_prob

\* C18: calibrate_both.py computes both probabilities with the same pair of midpoints;
\* it reports convergence only when both errors are below 0.015; otherwise both intervals
\* have been narrowed to their midpoints and the loop goes on, giving up only after 100
\* iterations.
C18_JointConvergence ==
    (script = "calibrate_both" /\ iterations >= 1) =>
        /\ prob_base = script_run(rng, ba_mid, as_mid, script_baseline_vector, n_paths)
        /\ prob_max = script_run(rng, ba_mid, as_mid, script_maximum_vector, n_paths)
        /\ cal_pc = "converged" =>
            /\ abs_error(prob_base, 450) < 15 * prob_base[2]
            /\ abs_error(prob_max, 900) < 15 * prob_max[2]
        /\ cal_pc = "loop" =>
            /\ ~ (/\ abs_error(prob_base, 450) < 15 * prob_base[2]
                  /\ abs_error(prob_max, 900) < 15 * prob_max[2])
            /\ ba_mid \in {ba_low, ba_high}
            /\ as_mid \in {as_low, as_high}
        /\ cal_pc = "exhausted" => iterations = 100

\* an iteration at which the baseline probability alone was within the tolerance: both
\* intervals were narrowed and the loop goes on
C18_Witness ==
    /\ script = "calibrate_both"
    /\ cal_pc = "loop"
    /\ iterations >= 1
    /\ iterations < 100
    /\ abs_error(prob_base, 450) < 15 * prob_base[2]
    /\ ~ (abs_error(prob_max, 900) < 15 * prob_max[2])
    /\ ba_mid \in {ba_low, ba_high}
    /\ as_mid \in {as_low, as_high}

\* C19: a projection request simulates the number of paths it asks for, 2000 when it asks
\* for none, and never more than Config.MAX_SIMULATIONS of them.
C19_SimulationCount ==
    (engine = "app" /\ cur_map # None /\ pc \in {"running", "returned"}) =>
        /\ n_sim \in RequestCounts \cup {2000}
        /\ Len(results) <= n_sim
        /\ pc = "returned" => Len(results) = n_sim
        /\ n_sim <= MAX_SIMULATIONS

\* prob > target_prob - tolerance
above_lower_edge(p, t, tol) == 1000 * p[1] - t * p[2] > 0 - tol * p[2]

\* prob >= target_prob + tolerance
beyond_upper_edge(p, t, tol) == 1000 * p[1] - t * p[2] >= tol * p[2]

\* the number of equal steps into which the initial interval of a script is divided
ProbeSteps == 1024

\* the k-th probe of the initial interval of a script, k in 0 .. ProbeSteps
probe(name, k) ==
    script_config(name).low
        + k * ((script_config(name).high - script_config(name).low) \div ProbeSteps)

\* the least k in lo .. hi at whose probe the probability of the script's engine has
\* passed an edge of the tolerance band (hi when none has), found by halving, which is
\* exact when the probability is non-decreasing in the parameter
RECURSIVE least_probe(_, _, _, _, _)
least_probe(name, n, lo, hi, upper) ==
    IF lo >= hi THEN lo
    ELSE LET m == (lo + hi) \div 2
             p == script_prob(42, script_config(name), probe(name, m), n)
             passed == IF upper
                       THEN beyond_upper_edge(p, script_config(name).target_prob,
                                              script_config(name).tolerance)
                       ELSE above_lower_edge(p, script_config(name).target_prob,
                                             script_config(name).tolerance)
         IN  IF passed
             THEN least_probe(name, n, lo, m, upper)
             ELSE least_probe(name, n, m + 1, hi, upper)

\* the probes whose probability is within the tolerance of the target are those from
\* first up to, not including, past
Solutions(name, n) ==
    [first |-> least_probe(name, n, 0, ProbeSteps + 1, FALSE),
     past |-> least_probe(name, n, 0, ProbeSteps + 1, TRUE)]

\* the engine's probability is non-decreasing along five evenly spaced probes
NonDecreasing(name, n) ==
    LET at == [k \in 0 .. 4 |->
                 script_prob(42, script_config(name), probe(name, k * (ProbeSteps \div 4)), n)]
    IN  \A k \in 0 .. 3 : at[k][1] <= at[k + 1][1]

\* C21: in the four standalone scripts, with a probability that is non-decreasing in the
\* calibrated parameter, after every non-converging step every parameter value of the
\* initial interval whose probability is within the tolerance of the target (every such
\* probe of the interval) is still in [low, high].
C21_KeepsSolution ==
    (script \in StandaloneScripts /\ cal_pc = "loop" /\ iterations >= 1) =>
        LET sol == Solutions(script, n_paths)
        IN  (NonDecreasing(script, n_paths) /\ sol.first < sol.past) =>
                /\ low <= probe(script, sol.first)
                /\ probe(script, sol.past - 1) <= high

\* calibrate_two_step.py after three non-converging steps: probes within the tolerance
\* exist, the interval has an eighth of its initial width and still holds them
C21_Witness ==
    /\ script = "calibrate_two_step"
    /\ cal_pc = "loop"
    /\ iterations = 3
    /\ NonDecreasing(script, n_paths)
    /\ LET sol == Solutions(script, n_paths)
       IN  /\ sol.first < sol.past
           /\ script_converged(script_prob(rng, calibrate_two_step_py,
                                           probe(script, sol.first), n_paths),
                               target_prob, tolerance)
           /\ low <= probe(script, sol.first)
           /\ probe(script, sol.past - 1) <= high
    /\ 8 * (high - low) <= calibrate_two_step_py.high - calibrate_two_step_py.low + 8

\* C22: every evaluation of test_alpha_scale ran the engine at its argument, and after
\* each of them, hence after calibrate has returned on either exit, mc_engine.alpha_scale
\* is the value it had before calibrate was called (the one calibrate read as best_scale).
C22_EngineUntouched ==
    script = "calibrate" =>
        /\ alpha_scale = engine_scale(best_scale)
        /\ alpha_scale = initial_alpha_scale
        /\ LET e == evaluated[Len(evaluated)]
           IN  e[2] = app_run(rng, interventions_to_vector(All100),
                              engine_scale(e[1]), n_paths).probability

\* calibrate has returned as converged with a value other than the engine's alpha_scale,
\* which the engine still has
C22_Witness ==
    /\ script = "calibrate"
    /\ cal_pc = "converged"
    /\ report # None
    /\ engine_scale(report[1].value) # alpha_scale
    /\ evaluated[Len(evaluated)][1] = report[1].value
    /\ alpha_scale = initial_alpha_scale

\* C23: the reference vectors of the calibration and verification scripts are the vectors
\* the serving conversion gives: the baseline vector that of the default table, the
\* maximum vector that of the mapping with every lever at 100, the inverted lever's value
\* standing at the position of Postharvest Loss (%) in INTERVENTIONS.
C23_ReferenceVectors ==
    /\ (script \in {"recalibrate_baseline", "calibrate_two_step"} /\ iterations >= 1) =>
        script_config(script).vector = interventions_to_vector(DEFAULT_TARGETS)
    /\ (script = "calibrate_alpha_scale" /\ iterations >= 1) =>
        script_config(script).vector = interventions_to_vector(All100)
    /\ (script = "calibrate_both" /\ iterations >= 1) =>
        /\ script_baseline_vector = interventions_to_vector(DEFAULT_TARGETS)
        /\ script_maximum_vector = interventions_to_vector(All100)
    /\ verify_full_vector = interventions_to_vector(All100)

\* C24: in run_simulation of data/models/monte_carlo.py every path takes target_year -
\* base_year annual steps for the target_year passed to the call, and the target_year
\* echoed in simulation_params is the year that was simulated.
C24_HorizonFollowsArgument ==
    (engine = "dm" /\ pc \in {"running", "returned"}) =>
        /\ year < target_year_arg - dm_base_year
        /\ draws <= n_sim * (target_year_arg - dm_base_year)
        /\ pc = "returned" =>
            /\ draws = n_sim * (target_year_arg - dm_base_year)
            /\ echoed_target_year = dm_base_year + draws \div n_sim

\* alpha_scale of the serving engine (1e-4) in the unit of a script's engine (1e-5)
in_script_unit(scale) == 10 * scale

\* C25: with the serving engine's parameter values, the vector and the count of a call of
\* app.py's run_simulation, the engine of the calibration and verification scripts
\* computes the same drift, the same volatility, the same path values and the same
\* probability, and raises on the same vectors.
C25_EnginesEquivalent ==
    engine = "app" =>
        /\ pc = "raised" =>
            np_dot_raises(effective_alpha(in_script_unit(alpha_scale)), vec)
        /\ pc \in {"running", "returned"} =>
            /\ drift = script_drift(baseline_alpha, in_script_unit(alpha_scale), vec)
            /\ vol = script_vol(vec)
            /\ results = SubSeq(script_results(seed, baseline_alpha,
                                               in_script_unit(alpha_scale), vec, n_sim),
                                1, Len(results))
        /\ pc = "returned" =>
            ret[1].probability =
                script_run(seed, baseline_alpha, in_script_unit(alpha_scale), vec, n_sim)

\* a request at the 35% baseline has returned two paths, the ones a script's engine
\* computes with the serving parameters
C25_Witness ==
    /\ engine = "app"
    /\ pc = "returned"
    /\ cur_map = Some(create_payload(35))
    /\ n_sim >= 2
    /\ Len(results) = n_sim
    /\ results = script_results(seed, baseline_alpha, in_script_unit(alpha_scale), vec, n_sim)
    /\ drift > base_growth_rate + baseline_alpha

\* C26: base_volatility is below volatility_floor and every beta is positive, so a call
\* of the serving engine on a vector without negative entries has the volatility
\* volatility_floor; a volatility above the floor needs a negative entry, which a request
\* produces only from a raw Postharvest Loss above 100 or a negative raw value of a
\* direct lever.
C26_VolatilityConstant ==
    /\ base_volatility < volatility_floor
    /\ \A i \in 1 .. Len(beta) : beta[i] > 0
    /\ AppCall =>
        /\ (\A i \in 1 .. Len(vec) : vec[i] >= 0) => vol = volatility_floor
        /\ vol > volatility_floor => \E i \in 1 .. Len(vec) : vec[i] < 0
        /\ (vol > volatility_floor /\ cur_map # None) =>
            \/ RawOf(cur_map[1], PostharvestLoss) > 100
            \/ \E name \in LeverNames \ {PostharvestLoss} : RawOf(cur_map[1], name) < 0

\* a request with every lever engaged in range draws with the floor
C26_Witness ==
    /\ AppCall
    /\ cur_map = Some(create_payload(100))
    /\ draws > 0
    /\ \A i \in 1 .. Len(vec) : vec[i] >= 0
    /\ \E i \in 1 .. Len(vec) : vec[i] = 100
    /\ base_volatility - np_dot(effective_beta, vec) < 0
    /\ vol = volatility_floor

\* C27: when two calls of the serving engine's run_simulation are interleaved on the
\* generator of the process, each call returns the distribution it returns when it
\* runs alone.
C27_InterleavedCalls ==
    \A t \in Threads :
        threads[t].pc = "returned" =>
            threads[t].ret = Some(app_run(rng, threads[t].vec, alpha_scale, threads[t].n_sim))

(***************************************************************************)
(* The interval of a bisection loop                                        *)
(***************************************************************************)
\* the width w after k halvings, each rounded down, and each rounded up: a midpoint
\* is rounded down to the resolution, so one half is the smaller and one the larger
RECURSIVE halved_down(_, _)
halved_down(w, k) == IF k = 0 \/ w = 0 THEN w ELSE halved_down(w \div 2, k - 1)

RECURSIVE halved_up(_, _)
halved_up(w, k) == IF k = 0 \/ w <= 1 THEN w ELSE halved_up((w + 1) \div 2, k - 1)

\* the iterations that replaced an end of the interval: all but a converging one
narrowings == IF cal_pc = "converged" THEN iterations - 1 ELSE iterations

\* the interval a single-parameter loop starts on
initial_low(name) ==
    IF name = "calibrate" THEN calibrate_low ELSE script_config(name).low

initial_high(name) ==
    IF name = "calibrate" THEN calibrate_high ELSE script_config(name).high

\* the interval [lo, hi] of a loop started on [lo0, hi0] whose last midpoint is m and
\* whose next pass, if the loop continues, evaluates midpoint(lo, hi)
interval_strict(lo0, hi0, lo, hi, m, continues) ==
    /\ lo0 <= lo
    /\ lo < hi
    /\ hi <= hi0
    /\ continues => (lo < midpoint(lo, hi) /\ midpoint(lo, hi) < hi)
    /\ cal_pc = "converged" => (lo < m /\ m < hi)
    /\ (cal_pc = "loop" /\ iterations >= 1) => ((lo = m) # (hi = m))
    /\ halved_down(hi0 - lo0, narrowings) <= hi - lo
    /\ hi - lo <= halved_up(hi0 - lo0, narrowings)

\* the same down to the resolution of the arithmetic: strict while the ends are not
\* adjacent values, and the interval may end as a single point
interval_to_resolution(lo0, hi0, lo, hi, m, continues) ==
    /\ lo0 <= lo
    /\ lo <= hi
    /\ hi <= hi0
    /\ continues => (lo <= midpoint(lo, hi) /\ midpoint(lo, hi) <= hi)
    /\ (continues /\ hi - lo >= 2) => (lo < midpoint(lo, hi) /\ midpoint(lo, hi) < hi)
    /\ cal_pc = "converged" => (lo <= m /\ m <= hi)
    /\ (cal_pc = "loop" /\ iterations >= 1) => (lo = m \/ hi = m)
    /\ (cal_pc = "loop" /\ iterations >= 1 /\ lo < hi) => ((lo = m) # (hi = m))
    /\ halved_down(hi0 - lo0, narrowings) <= hi - lo
    /\ hi - lo <= halved_up(hi0 - lo0, narrowings)

\* the single-parameter loops: calibrate.py and the four standalone scripts
single_interval_strict ==
    script \in SingleParameter =>
        /\ interval_strict(initial_low(script), initial_high(script), low, high, mid,
                           /\ cal_pc = "loop"
                           /\ IF script = "calibrate"
                              THEN calibrate_continues(iterations)
                              ELSE script_continues(script_config(script), low, high,
                                                    iterations))
        /\ report # None =>
              /\ initial_low(script) < report[1].value
              /\ report[1].value < initial_high(script)

\* C28 (as stated): in every calibration loop, the two intervals of calibrate_both.py
\* included, initial_low <= low < high <= initial_high at every iteration, the midpoint
\* evaluated lies strictly between low and high, a non-converging iteration replaces
\* exactly one end by the midpoint so that the width is halved, and every reported
\* value lies strictly inside the initial bounds.
C28_IntervalStrictEverywhere ==
    /\ single_interval_strict
    /\ script = "calibrate_both" =>
          /\ interval_strict(calibrate_both_py.ba_low, calibrate_both_py.ba_high,
                             ba_low, ba_high, ba_mid,
                             cal_pc = "loop" /\ both_continues(iterations))
          /\ interval_strict(calibrate_both_py.as_low, calibrate_both_py.as_high,
                             as_low, as_high, as_mid,
                             cal_pc = "loop" /\ both_continues(iterations))
          /\ report # None =>
                /\ calibrate_both_py.ba_low < report[1].baseline_alpha
                /\ report[1].baseline_alpha < calibrate_both_py.ba_high
                /\ calibrate_both_py.as_low < report[1].alpha_scale
                /\ report[1].alpha_scale < calibrate_both_py.as_high

\* C28 (amended): the interval invariant holds as stated in calibrate.py and the four
\* standalone scripts.  In calibrate_both.py, whose loop has no test of the width, it
\* holds for each interval while its ends are not adjacent values of the arithmetic;
\* from then on the midpoint is one of the ends, the interval no longer halves and
\* may become the single point low = high, and the reported values lie within the
\* initial bounds, ends included.
C28_IntervalToResolution ==
    /\ single_interval_strict
    /\ script = "calibrate_both" =>
          /\ interval_to_resolution(calibrate_both_py.ba_low, calibrate_both_py.ba_high,
                                    ba_low, ba_high, ba_mid,
                                    cal_pc = "loop" /\ both_continues(iterations))
          /\ interval_to_resolution(calibrate_both_py.as_low, calibrate_both_py.as_high,
                                    as_low, as_high, as_mid,
                                    cal_pc = "loop" /\ both_continues(iterations))
          /\ report # None =>
                /\ calibrate_both_py.ba_low <= report[1].baseline_alpha
                /\ report[1].baseline_alpha <= calibrate_both_py.ba_high
                /\ calibrate_both_py.as_low <= report[1].alpha_scale
                /\ report[1].alpha_scale <= calibrate_both_py.as_high

\* calibrate_both.py has run its budget out on intervals whose ends are adjacent or equal
C28_Witness ==
    /\ script = "calibrate_both"
    /\ cal_pc = "exhausted"
    /\ iterations = calibrate_both_py.max_iterations
    /\ as_high - as_low <= 1
    /\ ba_high - ba_low <= 1
    /\ report # None
    /\ report[1].alpha_scale = as_low

(***************************************************************************)
(* What ends a standalone loop                                             *)
(***************************************************************************)
\* the passes after which an interval of width w is no wider than width, each pass
\* leaving the larger half
RECURSIVE passes_to_width(_, _)
passes_to_width(w, width) ==
    IF w <= width THEN 0 ELSE 1 + passes_to_width((w + 1) \div 2, width)

\* the most passes the width test of a standalone script allows
script_passes(name) ==
    passes_to_width(script_config(name).high - script_config(name).low,
                    script_config(name).width)

\* C29: the width of the interval, not the iteration budget, ends the loop of a standalone
\* script: calibrate_alpha_scale.py makes at most 9 passes, calibrate_baseline.py,
\* recalibrate_baseline.py and calibrate_two_step.py at most 11, so the budgets 40, 25,
\* 50 and 50 are never reached and a loop that ends without converging ends on its
\* width test with iterations < max_iterations.
C29_WidthEndsLoop ==
    script \in StandaloneScripts =>
        /\ iterations <= script_passes(script)
        /\ script_passes(script) = IF script = "calibrate_alpha_scale" THEN 9 ELSE 11
        /\ script_passes(script) < script_config(script).max_iterations
        /\ cal_pc = "exhausted" =>
              /\ iterations < script_config(script).max_iterations
              /\ high - low <= script_config(script).width

\* recalibrate_baseline.py left its loop after 11 passes without converging
C29_Witness ==
    /\ script = "recalibrate_baseline"
    /\ cal_pc = "exhausted"
    /\ iterations = 11
    /\ high - low <= script_config(script).width
    /\ iterations < script_config(script).max_iterations

(***************************************************************************)
(* The samples of optimize_interventions                                   *)
(***************************************************************************)
\* the vectors optimize_interventions has given to run_simulation so far
candidate_vectors == {opt.candidates[j].vector : j \in DOMAIN opt.candidates}

\* C30: run_simulation reseeds the shared generator with 42 and consumes the same number
\* of draws in every iteration, so the vector sampled in every iteration from the second
\* on is the same vector and the search evaluates at most two distinct vectors whatever
\* n_iterations is; every vector it evaluates, and the one it returns, costs no more
\* than the budget.
C30_SamplingCollapses ==
    opt.pc # "idle" =>
        /\ \A j, k \in DOMAIN opt.candidates :
              (j >= 2 /\ k >= 2) => opt.candidates[j] = opt.candidates[k]
        /\ Cardinality(candidate_vectors) <= 2
        /\ \A j \in DOMAIN opt.candidates :
              /\ opt.candidates[j].total_cost = np_dot(costs, opt.candidates[j].vector)
              /\ opt.candidates[j].total_cost <= 100 * opt.budget
        /\ opt.pc = "returned" =>
              /\ opt.ret[1].optimized_interventions \in candidate_vectors
              /\ opt.ret[1].total_cost = np_dot(costs, opt.ret[1].optimized_interventions)
              /\ opt.ret[1].total_cost <= 100 * opt.budget

\* three iterations ran, the second and third on one vector that differs from the
\* first, after samples over the budget were drawn again, and the best one was returned
C30_Witness ==
    /\ opt.pc = "returned"
    /\ opt.n_iterations = 3
    /\ Len(opt.candidates) = 3
    /\ opt.candidates[1].vector # opt.candidates[2].vector
    /\ opt.candidates[2] = opt.candidates[3]
    /\ opt.budget = 38

====
